---- MODULE Spec2Model ----
(***************************************************************************)
(* Announcements endpoints of the High School Management System API        *)
(* (src/backend/routers/announcements.py).                                 *)
(*                                                                         *)
(* The five FastAPI handlers are modelled as request processes running on  *)
(* the framework's thread pool.  Every call on a MongoDB collection is one *)
(* atomic step; the Python code between two store calls belongs to the     *)
(* step of the store call that follows it.  Store calls are assumed to     *)
(* complete (no driver or connectivity error is modelled).                 *)
(*                                                                         *)
(* Python strings are sequences of one-character strings, so that the      *)
(* store's lexicographic string comparison, datetime.isoformat() and       *)
(* datetime.fromisoformat() are computed rather than assumed.              *)
(***************************************************************************)
EXTENDS Integers, Sequences, FiniteSets, TLC

(***************************************************************************)
(* Bounds of the model.                                                    *)
(***************************************************************************)
\* the identifiers the store issues at most, under Spec
MaxAnnouncements == 2
\* the identifiers the store issues at most, under SpecDates
MaxDated == 1
\* the identifiers the store issues at most, under SpecExpiry
MaxExpiring == 2
\* the identifiers the store issues at most, under SpecRace
MaxRaced == 1

(***************************************************************************)
(* Python values.                                                          *)
(***************************************************************************)
\* Python's None; no string is equal to it (characters have length 1)
None == <<"None">>

\* Python's None where a dict or an object (a record) may stand
NoneObj == [none |-> TRUE]

\* bool(x) of an Optional[str]: None and "" are falsy
Truthy(x) == x # None /\ x # <<>>

\* ord(c) for the characters the model uses
Ord(c) ==
  CASE c = " " -> 32  [] c = "+" -> 43  [] c = "-" -> 45  [] c = "." -> 46
    [] c = "0" -> 48  [] c = "1" -> 49  [] c = "2" -> 50  [] c = "3" -> 51
    [] c = "4" -> 52  [] c = "5" -> 53  [] c = "6" -> 54  [] c = "7" -> 55
    [] c = "8" -> 56  [] c = "9" -> 57  [] c = ":" -> 58
    [] c = "A" -> 65  [] c = "B" -> 66  [] c = "C" -> 67  [] c = "D" -> 68
    [] c = "E" -> 69  [] c = "F" -> 70  [] c = "M" -> 77  [] c = "N" -> 78
    [] c = "T" -> 84  [] c = "Z" -> 90
    [] c = "a" -> 97  [] c = "b" -> 98  [] c = "c" -> 99  [] c = "d" -> 100
    [] c = "e" -> 101 [] c = "f" -> 102 [] c = "n" -> 110 [] c = "o" -> 111
    [] c = "s" -> 115 [] c = "w" -> 119 [] c = "x" -> 120 [] c = "y" -> 121
    [] c = "z" -> 122

IsDigit(c) == Ord(c) >= 48 /\ Ord(c) <= 57

DigitVal(c) == Ord(c) - 48

DigitChar(n) == <<"0", "1", "2", "3", "4", "5", "6", "7", "8", "9">>[n + 1]

\* the store's order on strings: binary (code point) lexicographic comparison
StrLess(a, b) ==
  \E i \in 1..(Len(a) + 1) :
     /\ \A j \in 1..(i - 1) : j <= Len(b) /\ a[j] = b[j]
     /\ \/ i = Len(a) + 1 /\ Len(b) >= i
        \/ i <= Len(a) /\ i <= Len(b) /\ Ord(a[i]) < Ord(b[i])

StrLeq(a, b) == a = b \/ StrLess(a, b)

\* str.find(c) + 1: the 1-based position of the first c in s, 0 when there is none
FindChar(s, c) ==
  IF \E i \in 1..Len(s) : s[i] = c
  THEN CHOOSE i \in 1..Len(s) : s[i] = c /\ \A j \in 1..(i - 1) : s[j] # c
  ELSE 0

\* s.replace('Z', '+00:00')
RECURSIVE ReplaceZ(_)
ReplaceZ(s) ==
  IF s = <<>> THEN <<>>
  ELSE IF Head(s) = "Z" THEN <<"+", "0", "0", ":", "0", "0">> \o ReplaceZ(Tail(s))
  ELSE <<Head(s)>> \o ReplaceZ(Tail(s))

(***************************************************************************)
(* datetime: isoformat() and fromisoformat().                              *)
(***************************************************************************)
\* "%02d" % n and "%04d" % n
D2(n) == <<DigitChar(n \div 10), DigitChar(n % 10)>>

D4(n) == D2(n \div 100) \o D2(n % 100)

\* "%06d" % n
D6(n) == D2(n \div 10000) \o D4(n % 10000)

\* the decimal value of a string of digits
RECURSIVE DecVal(_)
DecVal(s) == IF s = <<>> THEN 0 ELSE DecVal(SubSeq(s, 1, Len(s) - 1)) * 10 + DigitVal(s[Len(s)])

AllDigits(s) == \A i \in 1..Len(s) : IsDigit(s[i])

IsLeap(y) == y % 4 = 0 /\ (y % 100 # 0 \/ y % 400 = 0)

DaysInMonth(y, m) ==
  IF m = 2 THEN (IF IsLeap(y) THEN 29 ELSE 28)
  ELSE IF m \in {4, 6, 9, 11} THEN 30 ELSE 31

\* days from 1970-01-01 to the proleptic Gregorian date y-m-d
DaysFromCivil(y, m, d) ==
  LET yy  == IF m <= 2 THEN y - 1 ELSE y
      era == yy \div 400
      yoe == yy - era * 400
      mp  == IF m > 2 THEN m - 3 ELSE m + 9
      doy == (153 * mp + 2) \div 5 + d - 1
      doe == yoe * 365 + yoe \div 4 - yoe \div 100 + doy
  IN  era * 146097 + doe - 719468

\* timezone(timedelta(minutes=off))
TimeZone(off) == [utcoffset |-> off]

\* a datetime object; tzinfo is None (naive) or a timezone, minutes east of UTC
DateTime(y, mo, d, h, mi, s, us, tz) ==
  [year |-> y, month |-> mo, day |-> d, hour |-> h, minute |-> mi,
   second |-> s, microsecond |-> us, tzinfo |-> tz]

\* the instant a datetime denotes, <<seconds since the epoch, microseconds>>;
\* a naive datetime is a UTC time, as datetime.utcnow() is
Instant(dt) ==
  LET off == IF dt.tzinfo = NoneObj THEN 0 ELSE dt.tzinfo.utcoffset
  IN  << DaysFromCivil(dt.year, dt.month, dt.day) * 86400
           + dt.hour * 3600 + dt.minute * 60 + dt.second - off * 60,
         dt.microsecond >>

InstantLeq(a, b) == a[1] < b[1] \/ (a[1] = b[1] /\ a[2] <= b[2])

\* datetime.isoformat() of a naive datetime: the fraction is left out when it is 0
isoformat(dt) ==
  D4(dt.year) \o <<"-">> \o D2(dt.month) \o <<"-">> \o D2(dt.day) \o <<"T">>
    \o D2(dt.hour) \o <<":">> \o D2(dt.minute) \o <<":">> \o D2(dt.second)
    \o (IF dt.microsecond = 0 THEN <<>> ELSE <<".">> \o D6(dt.microsecond))

\* ValueError
Invalid == [ok |-> FALSE]

\* the date part YYYY-MM-DD
ParseDate(s) ==
  IF /\ Len(s) = 10
     /\ AllDigits(SubSeq(s, 1, 4)) /\ s[5] = "-"
     /\ AllDigits(SubSeq(s, 6, 7)) /\ s[8] = "-"
     /\ AllDigits(SubSeq(s, 9, 10))
  THEN LET y == DecVal(SubSeq(s, 1, 4))
           m == DecVal(SubSeq(s, 6, 7))
           d == DecVal(SubSeq(s, 9, 10))
       IN  IF y >= 1 /\ m \in 1..12 /\ d >= 1 /\ d <= DaysInMonth(y, m)
           THEN [ok |-> TRUE, year |-> y, month |-> m, day |-> d]
           ELSE Invalid
  ELSE Invalid

\* HH[:MM[:SS[.ffffff]]]
ParseHHMMSS(s) ==
  LET n  == Len(s)
      okShape ==
        /\ n \in {2, 5, 8, 15}
        /\ AllDigits(SubSeq(s, 1, 2))
        /\ n >= 5 => s[3] = ":" /\ AllDigits(SubSeq(s, 4, 5))
        /\ n >= 8 => s[6] = ":" /\ AllDigits(SubSeq(s, 7, 8))
        /\ n = 15 => s[9] = "." /\ AllDigits(SubSeq(s, 10, 15))
  IN  IF okShape
      THEN LET h  == DecVal(SubSeq(s, 1, 2))
               mi == IF n >= 5 THEN DecVal(SubSeq(s, 4, 5)) ELSE 0
               sc == IF n >= 8 THEN DecVal(SubSeq(s, 7, 8)) ELSE 0
               us == IF n = 15 THEN DecVal(SubSeq(s, 10, 15)) ELSE 0
           IN  IF h < 24 /\ mi < 60 /\ sc < 60
               THEN [ok |-> TRUE, hour |-> h, minute |-> mi, second |-> sc, microsecond |-> us]
               ELSE Invalid
      ELSE Invalid

\* the time part: HH[:MM[:SS[.ffffff]]][(+|-)HH:MM]
ParseTime(t) ==
  LET minus == FindChar(t, "-")
      tzpos == IF minus # 0 THEN minus ELSE FindChar(t, "+")
      hms   == IF tzpos = 0 THEN t ELSE SubSeq(t, 1, tzpos - 1)
      tz    == IF tzpos = 0 THEN <<>> ELSE SubSeq(t, tzpos + 1, Len(t))
      c     == ParseHHMMSS(hms)
      z     == ParseHHMMSS(tz)
  IN  IF ~c.ok THEN Invalid
      ELSE IF tzpos = 0
      THEN [ok |-> TRUE, hour |-> c.hour, minute |-> c.minute, second |-> c.second,
            microsecond |-> c.microsecond, tzinfo |-> NoneObj]
      ELSE IF Len(tz) = 5 /\ z.ok
      THEN [ok |-> TRUE, hour |-> c.hour, minute |-> c.minute, second |-> c.second,
            microsecond |-> c.microsecond,
            tzinfo |-> TimeZone((IF t[tzpos] = "-" THEN -1 ELSE 1) * (z.hour * 60 + z.minute))]
      ELSE Invalid

\* datetime.fromisoformat(s): YYYY-MM-DD[*HH[:MM[:SS[.ffffff]]][(+|-)HH:MM]];
\* [ok |-> FALSE] stands for ValueError
fromisoformat(s) ==
  IF Len(s) < 10 THEN Invalid
  ELSE LET d == ParseDate(SubSeq(s, 1, 10))
       IN  IF ~d.ok THEN Invalid
           ELSE IF Len(s) = 10
           THEN [ok |-> TRUE, dt |-> DateTime(d.year, d.month, d.day, 0, 0, 0, 0, NoneObj)]
           ELSE LET t == ParseTime(SubSeq(s, 12, Len(s)))
                IN  IF ~t.ok THEN Invalid
                    ELSE [ok |-> TRUE,
                          dt |-> DateTime(d.year, d.month, d.day, t.hour, t.minute,
                                          t.second, t.microsecond, t.tzinfo)]

(***************************************************************************)
(* bson.ObjectId.  An ObjectId is modelled by the number its 12 bytes      *)
(* spell; str() renders 24 lower-case hex digits, ObjectId(s) parses them. *)
(***************************************************************************)
HexChar(n) ==
  <<"0", "1", "2", "3", "4", "5", "6", "7", "8", "9", "a", "b", "c", "d", "e", "f">>[n + 1]

IsHex(c) ==
  \/ IsDigit(c)
  \/ Ord(c) >= 97 /\ Ord(c) <= 102
  \/ Ord(c) >= 65 /\ Ord(c) <= 70

HexDigitVal(c) ==
  IF IsDigit(c) THEN DigitVal(c)
  ELSE IF Ord(c) >= 97 THEN Ord(c) - 87 ELSE Ord(c) - 55

RECURSIVE HexVal(_)
HexVal(s) ==
  IF s = <<>> THEN 0 ELSE HexVal(SubSeq(s, 1, Len(s) - 1)) * 16 + HexDigitVal(s[Len(s)])

\* str(oid)
ObjectIdStr(oid) ==
  [i \in 1..22 |-> "0"] \o <<HexChar(oid \div 16), HexChar(oid % 16)>>

\* a constructor that accepts every string (faulty variant of ObjectId)
ObjectIdLenient(s) == [ok |-> TRUE, oid |-> 0]

\* ObjectId(s): [ok |-> FALSE] stands for bson.errors.InvalidId
ObjectId(s) ==
  IF Len(s) = 24 /\ \A i \in 1..24 : IsHex(s[i])
  THEN [ok |-> TRUE, oid |-> HexVal(s)]
  ELSE [ok |-> FALSE]

(***************************************************************************)
(* The requests the model sends.                                           *)
(***************************************************************************)
Workers == {1, 2}

\* the user collection; this module only reads it
teachers_collection == {[_id |-> <<"a", "l", "i", "c", "e">>], [_id |-> <<"b", "o", "b">>]}

Alice == <<"a", "l", "i", "c", "e">>

Bob == <<"b", "o", "b">>

\* "eve" has no record in the user collection
Eve == <<"e", "v", "e">>

Usernames == {Alice, Bob, Eve}

\* "M" and "N"
Messages == {<<"M">>, <<"N">>}

Naive(y, mo, d, h, mi, s) == isoformat(DateTime(y, mo, d, h, mi, s, 0, NoneObj))

\* "2000-01-01T00:00:00"
PastDate == Naive(2000, 1, 1, 0, 0, 0)

\* "2025-01-01T01:00:00"
NaiveDate == Naive(2025, 1, 1, 1, 0, 0)

\* "2025-01-01T02:00:00+02:00", the instant 2025-01-01T00:00:00 UTC
OffsetDate == Naive(2025, 1, 1, 2, 0, 0) \o <<"+", "0", "2", ":", "0", "0">>

\* "2025-01-01T01:00:00Z"
ZuluDate == NaiveDate \o <<"Z">>

\* "2025-01-01"
DateOnly == SubSeq(NaiveDate, 1, 10)

\* "2025-02-30", no date
BadDate == <<"2", "0", "2", "5", "-", "0", "2", "-", "3", "0">>

\* "xyz", no ObjectId
BadId == <<"x", "y", "z">>

ValidDates == {PastDate, NaiveDate, OffsetDate, ZuluDate, DateOnly}

IdsUpTo(n) == {ObjectIdStr(k) : k \in 1..n}

\* the readings of the server clock on 2025-01-01: <<hour, microsecond>>
ClockReadings == {<<0, 0>>, <<1, 0>>, <<1, 500000>>}

(***************************************************************************)
(* State.                                                                  *)
(***************************************************************************)
VARIABLES
  clock,          \* the server clock, what datetime.utcnow() returns
  announcements,  \* announcements_collection: a set of documents
  issued,         \* how many ObjectIds the store has generated
  pc,             \* pc[w]: where request w stands in its handler
  req,            \* req[w]: the operation and arguments of request w
  resp,           \* resp[w]: the response of request w, once it is done
  calls,          \* calls[w]: the store calls request w has made, in order
  bornExpired,    \* the stored documents whose end_date had passed when
                  \* insert_one stored them, with that end_date
  lastInsert      \* the create() that completed with no store call on the
                  \* announcements collection since, or NoneObj

vars == <<clock, announcements, issued, pc, req, resp, calls, bornExpired, lastInsert>>

NoReq == [op |-> "none", id |-> None, message |-> None, end_date |-> None,
          start_date |-> None, username |-> None]

NoResp == [status |-> 0, body |-> None]

Request(op, id, message, end_date, username, start_date) ==
  [op |-> op, id |-> id, message |-> message, end_date |-> end_date,
   start_date |-> start_date, username |-> username]

\* raise HTTPException(status_code=status, detail=detail)
HTTPException(status, detail) == [status |-> status, body |-> detail]

\* a normal return of the handler
Ok(body) == [status |-> 200, body |-> body]

Init ==
  /\ clock = DateTime(2025, 1, 1, 0, 0, 0, 0, NoneObj)
  /\ announcements = {}
  /\ issued = 0
  /\ pc = [w \in Workers |-> "idle"]
  /\ req = [w \in Workers |-> NoReq]
  /\ resp = [w \in Workers |-> NoResp]
  /\ calls = [w \in Workers |-> <<>>]
  /\ bornExpired = {}
  /\ lastInsert = NoneObj

(***************************************************************************)
(* The document store.                                                     *)
(***************************************************************************)
\* a lookup that finds a record for every username (faulty variant of FindTeacher)
FindTeacherAnyone(username) == [_id |-> username]

\* teachers_collection.find_one({"_id": username})
FindTeacher(username) ==
  IF \E t \in teachers_collection : t._id = username
  THEN CHOOSE t \in teachers_collection : t._id = username
  ELSE NoneObj

\* announcement["_id"] = str(announcement["_id"])
Stringify(doc) == [doc EXCEPT !._id = ObjectIdStr(doc._id)]

\* a filter that ignores end_date (faulty variant of ActiveFilter)
ActiveFilterNoEnd(doc, current_time) ==
  \/ doc.start_date = None
  \/ doc.start_date # None /\ StrLeq(doc.start_date, current_time)

\* the filter of get_active_announcements: $gte and $lte compare strings
ActiveFilter(doc, current_time) ==
  /\ StrLeq(current_time, doc.end_date)
  /\ \/ doc.start_date = None
     \/ doc.start_date # None /\ StrLeq(doc.start_date, current_time)

\* announcements_collection.find(filter)
FindActive(coll, current_time) == {doc \in coll : ActiveFilter(doc, current_time)}

\* sort("created_at", -1): a sequence is in descending created_at order
SortedDesc(seq) ==
  \A i \in 1..Len(seq) : \A j \in 1..Len(seq) :
     i < j => StrLeq(seq[j].created_at, seq[i].created_at)

\* the orders find().sort("created_at", -1) can return coll in (ties in any order)
FindSorted(coll) ==
  {seq \in [1..Cardinality(coll) -> coll] :
     /\ \A d \in coll : \E i \in 1..Cardinality(coll) : seq[i] = d
     /\ SortedDesc(seq)}

\* announcements_collection.find_one({"_id": oid})
FindOne(coll, oid) ==
  IF \E d \in coll : d._id = oid THEN CHOOSE d \in coll : d._id = oid ELSE NoneObj

\* an update_one that inserts when nothing matches (faulty variant of UpdateOne)
UpdateOneUpsert(coll, oid, update_data) ==
  IF \E d \in coll : d._id = oid
  THEN {IF d._id = oid
        THEN [d EXCEPT !.message = update_data.message,
                       !.start_date = update_data.start_date,
                       !.end_date = update_data.end_date]
        ELSE d : d \in coll}
  ELSE coll \cup {[_id |-> oid, message |-> update_data.message,
                   start_date |-> update_data.start_date,
                   end_date |-> update_data.end_date,
                   created_by |-> <<>>, created_at |-> <<>>]}

\* an update_one that writes every record (faulty variant of UpdateOne)
UpdateOneAll(coll, oid, update_data) ==
  {[d EXCEPT !.message = update_data.message,
             !.start_date = update_data.start_date,
             !.end_date = update_data.end_date] : d \in coll}

\* announcements_collection.update_one({"_id": oid}, {"$set": update_data})
UpdateOne(coll, oid, update_data) ==
  {IF d._id = oid
   THEN [d EXCEPT !.message = update_data.message,
                  !.start_date = update_data.start_date,
                  !.end_date = update_data.end_date]
   ELSE d : d \in coll}

\* result.matched_count, result.deleted_count
MatchedCount(coll, oid) == Cardinality({d \in coll : d._id = oid})

\* announcements_collection.delete_one({"_id": oid})
DeleteOneDoc(coll, oid) == {d \in coll : d._id # oid}

\* a validation that parses start_date only (faulty variant of DatesValid)
DatesValidStartOnly(end_date, start_date) ==
  Truthy(start_date) => fromisoformat(ReplaceZ(start_date)).ok

\* the date validation of create and update: TRUE when no ValueError is raised
DatesValid(end_date, start_date) ==
  /\ fromisoformat(ReplaceZ(end_date)).ok
  /\ Truthy(start_date) => fromisoformat(ReplaceZ(start_date)).ok

\* a document that stores end_date as start_date (faulty variant of NewAnnouncement)
NewAnnouncementCopied(message, end_date, username, start_date, now) ==
  [message |-> message, start_date |-> end_date, end_date |-> end_date,
   created_by |-> username, created_at |-> isoformat(now)]

\* the document create_announcement builds
NewAnnouncement(message, end_date, username, start_date, now) ==
  [message |-> message, start_date |-> start_date, end_date |-> end_date,
   created_by |-> username, created_at |-> isoformat(now)]

\* announcements_collection.insert_one(doc): the store adds the _id
InsertOne(coll, doc, oid) ==
  coll \cup {[_id |-> oid, message |-> doc.message, start_date |-> doc.start_date,
              end_date |-> doc.end_date, created_by |-> doc.created_by,
              created_at |-> doc.created_at]}

\* the end of a stored document, as an instant
EndInstant(doc) == Instant(fromisoformat(ReplaceZ(doc.end_date)).dt)

\* the end of the document lies before the clock reading now
HasPassed(doc, now) ==
  /\ fromisoformat(ReplaceZ(doc.end_date)).ok
  /\ ~InstantLeq(Instant(now), EndInstant(doc))

\* the start of a stored document that has one, as an instant
StartInstant(doc) == Instant(fromisoformat(ReplaceZ(doc.start_date)).dt)

(***************************************************************************)
(* The handlers.  A request is idle, then at the label of its next store   *)
(* call, then done (its response is in resp) until it returns.             *)
(***************************************************************************)
\* one more store call by request w
Call(w, name) == calls' = [calls EXCEPT ![w] = Append(@, name)]

\* request w ends with response r
Finish(w, r) ==
  /\ pc' = [pc EXCEPT ![w] = "done"]
  /\ resp' = [resp EXCEPT ![w] = r]

\* request w goes on to its next store call
Goto(w, label) ==
  /\ pc' = [pc EXCEPT ![w] = label]
  /\ UNCHANGED resp

\* GET /active
ListActive(w) ==
  /\ pc[w] = "idle"
  /\ LET current_time == isoformat(clock)
         found == FindActive(announcements, current_time)
     IN  Finish(w, [status |-> 200,
                    body |-> {Stringify(d) : d \in found},
                    now |-> clock,
                    coll |-> announcements])
  /\ req' = [req EXCEPT ![w] = Request("list_active", None, None, None, None, None)]
  /\ Call(w, "announcements.find")
  /\ lastInsert' = NoneObj
  /\ UNCHANGED <<clock, announcements, issued, bornExpired>>

\* GET /announcements
ListAll(w) ==
  /\ pc[w] = "idle"
  /\ \E found \in FindSorted(announcements) :
        Finish(w, [status |-> 200,
                   body |-> [i \in 1..Len(found) |-> Stringify(found[i])],
                   after |-> lastInsert])
  /\ req' = [req EXCEPT ![w] = Request("list_all", None, None, None, None, None)]
  /\ Call(w, "announcements.find")
  /\ lastInsert' = NoneObj
  /\ UNCHANGED <<clock, announcements, issued, bornExpired>>

\* a gate that looks the user up twice (faulty variant of Authenticate)
AuthenticateTwice(w, r, next) ==
  /\ pc[w] = "idle"
  /\ req' = [req EXCEPT ![w] = r]
  /\ calls' = [calls EXCEPT ![w] = @ \o <<"teachers.find_one", "teachers.find_one">>]
  /\ IF FindTeacher(r.username) = NoneObj
     THEN Finish(w, HTTPException(401, "Unauthorized"))
     ELSE Goto(w, next)
  /\ UNCHANGED <<clock, announcements, issued, bornExpired, lastInsert>>

\* the authentication gate of create, update and delete: request w starts as r
Authenticate(w, r, next) ==
  /\ pc[w] = "idle"
  /\ req' = [req EXCEPT ![w] = r]
  /\ Call(w, "teachers.find_one")
  /\ IF FindTeacher(r.username) = NoneObj
     THEN Finish(w, HTTPException(401, "Unauthorized"))
     ELSE Goto(w, next)
  /\ UNCHANGED <<clock, announcements, issued, bornExpired, lastInsert>>

\* the identifiers the creates in flight will still draw
Pending == Cardinality({w \in Workers : pc[w] = "create_insert"})

\* POST /announcements, up to teachers_collection.find_one
CreateAuth(w, message, end_date, username, start_date, max) ==
  /\ issued + Pending < max
  /\ Authenticate(w, Request("create", None, message, end_date, username, start_date),
                  "create_insert")

\* POST /announcements, from the date validation to the return
CreateInsert(w) ==
  /\ pc[w] = "create_insert"
  /\ IF ~DatesValid(req[w].end_date, req[w].start_date)
     THEN /\ Finish(w, HTTPException(400, "Invalid date format"))
          /\ UNCHANGED <<announcements, issued, bornExpired, lastInsert, calls>>
     ELSE LET announcement == NewAnnouncement(req[w].message, req[w].end_date,
                                              req[w].username, req[w].start_date, clock)
              stored == InsertOne(announcements, announcement, issued + 1)
              result == Ok(Stringify(FindOne(stored, issued + 1)))
          IN  /\ announcements' = stored
              /\ issued' = issued + 1
              /\ bornExpired' = IF HasPassed(announcement, clock)
                                THEN bornExpired \cup {[oid |-> issued + 1,
                                                        end_date |-> req[w].end_date]}
                                ELSE bornExpired
              /\ Call(w, "announcements.insert_one")
              /\ Finish(w, result)
              /\ lastInsert' = [req |-> req[w], resp |-> result]
  /\ UNCHANGED <<clock, req>>

\* PUT /announcements/{id}, up to teachers_collection.find_one
UpdateAuth(w, announcement_id, message, end_date, username, start_date) ==
  Authenticate(w, Request("update", announcement_id, message, end_date, username, start_date),
               "update_set")

\* PUT /announcements/{id}, from ObjectId() to the matched_count test
UpdateSet(w) ==
  /\ pc[w] = "update_set"
  /\ LET obj_id == ObjectId(req[w].id)
     IN  IF ~obj_id.ok
         THEN /\ Finish(w, HTTPException(400, "Invalid announcement ID"))
              /\ UNCHANGED <<announcements, lastInsert, calls>>
         ELSE IF ~DatesValid(req[w].end_date, req[w].start_date)
         THEN /\ Finish(w, HTTPException(400, "Invalid date format"))
              /\ UNCHANGED <<announcements, lastInsert, calls>>
         ELSE LET update_data == [message |-> req[w].message,
                                  start_date |-> req[w].start_date,
                                  end_date |-> req[w].end_date]
              IN  /\ announcements' = UpdateOne(announcements, obj_id.oid, update_data)
                  /\ Call(w, "announcements.update_one")
                  /\ lastInsert' = NoneObj
                  /\ IF MatchedCount(announcements, obj_id.oid) = 0
                     THEN Finish(w, HTTPException(404, "Announcement not found"))
                     ELSE Goto(w, "update_fetch")
  /\ UNCHANGED <<clock, issued, bornExpired, req>>

\* PUT /announcements/{id}, from find_one to the return; subscripting the
\* None that find_one returns for a missing document raises TypeError, which
\* the handler's except Exception turns into a 500
UpdateFetch(w) ==
  /\ pc[w] = "update_fetch"
  /\ LET announcement == FindOne(announcements, ObjectId(req[w].id).oid)
     IN  IF announcement = NoneObj
         THEN Finish(w, HTTPException(500, "Failed to update announcement"))
         ELSE Finish(w, Ok(Stringify(announcement)))
  /\ Call(w, "announcements.find_one")
  /\ lastInsert' = NoneObj
  /\ UNCHANGED <<clock, announcements, issued, bornExpired, req>>

\* DELETE /announcements/{id}, up to teachers_collection.find_one
DeleteAuth(w, announcement_id, username) ==
  Authenticate(w, Request("delete", announcement_id, None, None, username, None),
               "delete_one")

\* DELETE /announcements/{id}, from ObjectId() to the return
DeleteOne(w) ==
  /\ pc[w] = "delete_one"
  /\ LET obj_id == ObjectId(req[w].id)
     IN  IF ~obj_id.ok
         THEN /\ Finish(w, HTTPException(400, "Invalid announcement ID"))
              /\ UNCHANGED <<announcements, bornExpired, lastInsert, calls>>
         ELSE /\ announcements' = DeleteOneDoc(announcements, obj_id.oid)
              /\ bornExpired' = {b \in bornExpired : b.oid # obj_id.oid}
              /\ Call(w, "announcements.delete_one")
              /\ lastInsert' = NoneObj
              /\ IF MatchedCount(announcements, obj_id.oid) = 0
                 THEN Finish(w, HTTPException(404, "Announcement not found"))
                 ELSE Finish(w, Ok("Announcement deleted successfully"))
  /\ UNCHANGED <<clock, issued, req>>

\* the response of request w is delivered; the thread is free for a new request
Return(w) ==
  /\ pc[w] = "done"
  /\ pc' = [pc EXCEPT ![w] = "idle"]
  /\ req' = [req EXCEPT ![w] = NoReq]
  /\ resp' = [resp EXCEPT ![w] = NoResp]
  /\ calls' = [calls EXCEPT ![w] = <<>>]
  /\ UNCHANGED <<clock, announcements, issued, bornExpired, lastInsert>>

\* time passes: the clock moves to a later reading
Tick(readings) ==
  /\ \E r \in readings :
        /\ r[1] > clock.hour \/ (r[1] = clock.hour /\ r[2] > clock.microsecond)
        /\ clock' = [clock EXCEPT !.hour = r[1], !.microsecond = r[2]]
  /\ UNCHANGED <<announcements, issued, pc, req, resp, calls, bornExpired, lastInsert>>

\* the behaviours over a domain D: workers D.workers send requests with
\* usernames D.users, messages D.messages, identifiers D.ids, and the dates
\* D.ends and D.starts (create), D.newEnds and D.newStarts (update); the clock
\* takes the readings D.readings and the store issues at most D.max identifiers
NextOver(D) ==
  \/ Tick(D.readings)
  \/ \E w \in D.workers :
        \/ ListActive(w)
        \/ ListAll(w)
        \/ \E m \in D.messages, e \in D.ends, u \in D.users, s \in D.starts :
              CreateAuth(w, m, e, u, s, D.max)
        \/ CreateInsert(w)
        \/ \E i \in D.ids, m \in D.messages, e \in D.newEnds, u \in D.users,
              s \in D.newStarts :
              UpdateAuth(w, i, m, e, u, s)
        \/ UpdateSet(w)
        \/ UpdateFetch(w)
        \/ \E i \in D.ids, u \in D.users : DeleteAuth(w, i, u)
        \/ DeleteOne(w)
        \/ Return(w)

Domain(W, U, M, E, S, NE, NS, I, R, max) ==
  [workers |-> W, users |-> U, messages |-> M, ends |-> E, starts |-> S,
   newEnds |-> NE, newStarts |-> NS, ids |-> I, readings |-> R, max |-> max]

\* one request at a time, with known and unknown users, good and bad dates
\* and identifiers
Next ==
  NextOver(Domain({1}, Usernames, Messages, {NaiveDate, BadDate}, {None, BadDate},
                  {NaiveDate, BadDate}, {None, BadDate},
                  IdsUpTo(MaxAnnouncements) \cup {BadId},
                  {<<0, 0>>, <<1, 0>>}, MaxAnnouncements))

Spec == Init /\ [][Next]_vars

\* one request at a time, by a known user, with every form of date
NextDates ==
  NextOver(Domain({1}, {Alice}, {<<"M">>}, ValidDates, {None, <<>>, NaiveDate},
                  {NaiveDate}, {None}, IdsUpTo(MaxDated), ClockReadings, MaxDated))

SpecDates == Init /\ [][NextDates]_vars

\* one request at a time, by a known user, with end dates that have passed
NextExpiry ==
  NextOver(Domain({1}, {Alice}, {<<"M">>}, {PastDate, NaiveDate, DateOnly}, {None},
                  {PastDate, NaiveDate}, {None}, IdsUpTo(MaxExpiring), ClockReadings,
                  MaxExpiring))

SpecExpiry == Init /\ [][NextExpiry]_vars

\* two requests at a time
NextRace ==
  NextOver(Domain(Workers, {Alice}, Messages, {NaiveDate}, {None}, {NaiveDate}, {None},
                  IdsUpTo(MaxRaced), {<<0, 0>>, <<1, 0>>}, MaxRaced))

SpecRace == Init /\ [][NextRace]_vars

(***************************************************************************)
(* What the claims speak of.                                               *)
(***************************************************************************)
Done(w) == pc[w] = "done"

\* request w takes a step
Step(w) == pc'[w] # pc[w]

\* no record of the user collection has this identifier
Unknown(username) == \A t \in teachers_collection : t._id # username

\* the string fails ISO-8601 parsing
BadIso(s) == ~fromisoformat(ReplaceZ(s)).ok

\* the string is a well-formed identifier: 24 hex digits
WellFormedId(s) == Len(s) = 24 /\ \A i \in 1..24 : IsHex(s[i])

\* some stored document has the identifier the string spells
Stored(s) == \E d \in announcements : ObjectIdStr(d._id) = s

\* the document is active at the instant of the clock reading now
ActiveAt(doc, now) ==
  /\ InstantLeq(Instant(now), EndInstant(doc))
  /\ \/ ~Truthy(doc.start_date)
     \/ InstantLeq(StartInstant(doc), Instant(now))

\* the end_date is written without 'Z' or a UTC offset
NaiveEnd(doc) == fromisoformat(ReplaceZ(doc.end_date)).dt.tzinfo = NoneObj

\* the document had an end_date in the past when it was created, and has
\* that end_date still
StillBornExpired(doc) == [oid |-> doc._id, end_date |-> doc.end_date] \in bornExpired

AnnouncementCalls ==
  {"announcements.insert_one", "announcements.update_one", "announcements.delete_one"}

(***************************************************************************)
(* The claims.                                                             *)
(***************************************************************************)
\* C1: an announcement of the collection is in the output of list_active()
\* if and only if its end_date is at or after the current time and its
\* start_date is absent or at or before it, the timestamps compared as the
\* instants they denote.
C1_ActiveIffInstants ==
  \A w \in Workers :
     (Done(w) /\ req[w].op = "list_active") =>
        \A doc \in resp[w].coll :
           (Stringify(doc) \in resp[w].body) <=> ActiveAt(doc, resp[w].now)

\* C2: create() with a username that has no record in the user collection
\* fails with 401 and leaves the announcements collection as it was.
C2_UnknownUserCreate ==
  [][\A w \in Workers :
        (pc[w] = "idle" /\ req'[w].op = "create" /\ Unknown(req'[w].username)) =>
           /\ pc'[w] = "done"
           /\ resp'[w].status = 401
           /\ announcements' = announcements]_vars

C2_Witness ==
  \E w \in Workers :
     /\ Done(w) /\ req[w].op = "create" /\ Unknown(req[w].username)
     /\ ~BadIso(req[w].end_date)
     /\ resp[w].status = 401

\* C3 as stated: create() and update() with an end_date that fails ISO-8601
\* parsing fail with 400 and leave the collection unchanged, whatever the
\* username, the identifier and the start_date are.
C3_BadEndAlways400 ==
  [][\A w \in Workers :
        (Step(w) /\ req'[w].op \in {"create", "update"} /\ BadIso(req'[w].end_date)) =>
           /\ announcements' = announcements
           /\ pc'[w] = "done" => resp'[w].status = 400]_vars

\* C3 as amended: create() and update() with an end_date that fails ISO-8601
\* parsing leave the collection unchanged and fail with 400 when the username
\* has a record in the user collection, with 401 when it has none.
C3_BadEnd ==
  [][\A w \in Workers :
        (Step(w) /\ req'[w].op \in {"create", "update"} /\ BadIso(req'[w].end_date)) =>
           /\ announcements' = announcements
           /\ pc'[w] = "done" =>
                 resp'[w].status = IF Unknown(req'[w].username) THEN 401 ELSE 400]_vars

C3_Witness ==
  \E w \in Workers :
     /\ Done(w) /\ req[w].op = "update" /\ BadIso(req[w].end_date)
     /\ ~Unknown(req[w].username) /\ Stored(req[w].id)
     /\ resp[w].status = 400

\* C4 as stated: update() and delete() with a syntactically invalid
\* identifier fail with 400, and no store call is made before the failure.
C4_InvalidIdNoStoreCall ==
  \A w \in Workers :
     (req[w].op \in {"update", "delete"} /\ ~WellFormedId(req[w].id)) =>
        /\ calls[w] = <<>>
        /\ Done(w) => resp[w].status = 400

\* C4 as amended: update() and delete() with a syntactically invalid
\* identifier make one store call, the lookup of the user, and none on the
\* announcements collection; they fail with 400 when the user has a record
\* and with 401 when it has none.
C4_InvalidId ==
  \A w \in Workers :
     (req[w].op \in {"update", "delete"} /\ ~WellFormedId(req[w].id)) =>
        /\ calls[w] = <<"teachers.find_one">>
        /\ Done(w) =>
              resp[w].status = IF Unknown(req[w].username) THEN 401 ELSE 400

C4_Witness ==
  \E w \in Workers :
     /\ Done(w) /\ req[w].op = "update" /\ ~WellFormedId(req[w].id)
     /\ ~Unknown(req[w].username) /\ ~BadIso(req[w].end_date)
     /\ resp[w].status = 400
     /\ announcements # {}

C6_Frame ==
  [][/\ \A d \in announcements : \A e \in announcements' :
           d._id = e._id => (e.created_by = d.created_by /\ e.created_at = d.created_at)
     /\ \A e \in announcements' :
           (\A d \in announcements : d._id # e._id) =>
              \E w \in Workers :
                 /\ pc[w] = "create_insert" /\ pc'[w] = "done"
                 /\ resp'[w].status = 200
                 /\ resp'[w].body._id = ObjectIdStr(e._id)
                 /\ e.created_by = req[w].username
                 /\ e.created_at = isoformat(clock)
     /\ \A w \in Workers :
           (pc[w] = "update_set" /\ Step(w)) =>
              \A d \in announcements :
                 \/ d \in announcements'
                 \/ /\ ObjectIdStr(d._id) = req[w].id
                    /\ \E e \in announcements' :
                          /\ e._id = d._id
                          /\ e.message = req[w].message
                          /\ e.start_date = req[w].start_date
                          /\ e.end_date = req[w].end_date]_vars

C6_Witness ==
  \E w \in Workers :
     /\ Done(w) /\ req[w].op = "update" /\ resp[w].status = 200
     /\ resp[w].body.created_by # req[w].username
     /\ resp[w].body.message = req[w].message
     /\ Cardinality(announcements) = 2
     /\ \E d \in announcements : d.message # req[w].message
     /\ clock.hour = 1 /\ resp[w].body.created_at = isoformat(DateTime(2025, 1, 1, 0, 0, 0, 0, NoneObj))

\* C7: after a successful create(message, end_date, username) with no
\* start_date, a list_all() that follows immediately returns a record with
\* the identifier create returned, that message, end_date and created_by,
\* and start_date None.
C7_RoundTrip ==
  \A w \in Workers :
     (/\ Done(w) /\ req[w].op = "list_all"
      /\ resp[w].after # NoneObj
      /\ resp[w].after.req.start_date = None) =>
        \E i \in 1..Len(resp[w].body) :
           /\ resp[w].body[i]._id = resp[w].after.resp.body._id
           /\ resp[w].body[i].message = resp[w].after.req.message
           /\ resp[w].body[i].end_date = resp[w].after.req.end_date
           /\ resp[w].body[i].start_date = None
           /\ resp[w].body[i].created_by = resp[w].after.req.username

C7_Witness ==
  \E w \in Workers :
     /\ Done(w) /\ req[w].op = "list_all"
     /\ resp[w].after # NoneObj
     /\ resp[w].after.req.start_date = None
     /\ Len(resp[w].body) = 2
     /\ resp[w].body[1].message # resp[w].body[2].message

C9_AtMostTwoCalls ==
  \A w \in Workers :
     /\ Len(calls[w]) <= 2
     /\ Len(calls[w]) = 2 =>
           calls[w][1] = "teachers.find_one" /\ calls[w][2] \in AnnouncementCalls

\* C9 as amended: every operation makes at most two store calls, the
\* user-existence check first, then one call on the announcements
\* collection, except update(), which makes a third after an update_one that
\* matched: the find_one that reads the record back; the two list
\* operations make one call, a find.
C9_Calls ==
  \A w \in Workers :
     /\ Len(calls[w]) <= 3
     /\ Len(calls[w]) = 3 =>
           /\ req[w].op = "update"
           /\ calls[w] = <<"teachers.find_one", "announcements.update_one",
                           "announcements.find_one">>
     /\ Len(calls[w]) = 2 =>
           calls[w][1] = "teachers.find_one" /\ calls[w][2] \in AnnouncementCalls
     /\ Len(calls[w]) = 1 =>
           IF req[w].op \in {"list_active", "list_all"}
           THEN calls[w][1] = "announcements.find"
           ELSE calls[w][1] = "teachers.find_one"

C9_Witness ==
  \E w \in Workers :
     /\ Done(w) /\ req[w].op = "update" /\ resp[w].status = 200
     /\ Len(calls[w]) = 3

\* C10: an update() whose update_one matched a record completes with 200 and
\* returns a record with the message, start_date and end_date of its request,
\* whatever update() and delete() requests run beside it.
C10_UpdateReturnsOwnValues ==
  \A w \in Workers :
     (/\ Done(w) /\ req[w].op = "update"
      /\ Len(calls[w]) = 3) =>
        /\ resp[w].status = 200
        /\ resp[w].body.message = req[w].message
        /\ resp[w].body.start_date = req[w].start_date
        /\ resp[w].body.end_date = req[w].end_date

====

